---------------------------- MODULE Spec2Model ----------------------------
(***************************************************************************)
(* DevFlow: the guide catalog (GuideService), the guide viewer             *)
(* (GuideViewerComponent: loadGuide, renderMarkdown, highlightCode) and    *)
(* the dashboard (DashboardComponent).                                     *)
(*                                                                         *)
(* A JavaScript string is a sequence of characters; a character is a       *)
(* one-character TLA+ string (NBSP is U+00A0 and BT the backtick).  Every regular      *)
(* expression of the source is an operator  X_at(s, i)  that gives the     *)
(* match of that expression starting at index i of s, as the backtracking  *)
(* matcher of String.prototype.replace finds it, and the text that         *)
(* replaces it; ReplaceAll and ReplaceFirst are replace with and without   *)
(* the g flag.                                                             *)
(***************************************************************************)
EXTENDS Integers, Sequences, FiniteSets, TLC

(***************************************************************************)
(* Characters and character classes                                        *)
(***************************************************************************)
NBSP == "nbsp"

\* the backtick, U+0060, which a TLA+ string literal cannot hold
BT == "backtick"

Lower == {"a", "b", "c", "d", "e", "f", "g", "h", "i", "j", "k", "l", "m",
          "n", "o", "p", "q", "r", "s", "t", "u", "v", "w", "x", "y", "z"}

Upper == {"A", "B", "C", "D", "E", "F", "G", "H", "I", "J", "K", "L", "M",
          "N", "O", "P", "Q", "R", "S", "T", "U", "V", "W", "X", "Y", "Z"}

Digit == {"0", "1", "2", "3", "4", "5", "6", "7", "8", "9"}

\* \w
WordChar == Lower \cup Upper \cup Digit \cup {"_"}

\* \s, and what String.prototype.trim removes
WhiteSpace == {" ", "\n", "\t", NBSP}

\* what . does not match, and where ^ and $ match under the m flag
LineTerminator == {"\n"}

Punct == {"<", ">", "&", ";", ":", "=", "\"", "'", "/", "*", "#", BT, "-",
          ".", "{", "}", "(", ")", "[", "]", "@", "%", "!", ",", "+", "?"}

Char == WordChar \cup WhiteSpace \cup Punct

\* the value of an absent optional argument or of a capture group that did
\* not take part in the match
undefined == <<"undefined">>

(***************************************************************************)
(* Strings                                                                 *)
(***************************************************************************)
\* the character at index i, "" outside the string
At(s, i) == IF i >= 1 /\ i <= Len(s) THEN s[i] ELSE ""

\* the literal lit stands at index i of s
IsAt(s, i, lit) ==
  /\ i >= 1
  /\ i + Len(lit) - 1 <= Len(s)
  /\ \A k \in 1..Len(lit) : s[i + k - 1] = lit[k]

\* s[i..j], empty when j < i
Slice(s, i, j) == IF j < i THEN <<>> ELSE SubSeq(s, i, j)

\* the first index >= i holding a character of C, 0 when there is none
FindChar(s, i, C) ==
  IF \E j \in i..Len(s) : s[j] \in C
  THEN CHOOSE j \in i..Len(s) : s[j] \in C /\ \A k \in i..(j - 1) : s[k] \notin C
  ELSE 0

\* the last index of the longest run of characters of C that starts at i
\* (i - 1 when s[i] is not in C): a greedy C*
RunEnd(s, i, C) ==
  IF \E j \in i..Len(s) : s[j] \notin C
  THEN (CHOOSE j \in i..Len(s) : s[j] \notin C /\ \A k \in i..(j - 1) : s[k] \in C) - 1
  ELSE IF i > Len(s) THEN i - 1 ELSE Len(s)

\* the first index >= i where the literal lit stands, 0 when there is none
FindLit(s, i, lit) ==
  IF \E j \in i..Len(s) : IsAt(s, j, lit)
  THEN CHOOSE j \in i..Len(s) :
         IsAt(s, j, lit) /\ \A k \in i..(j - 1) : ~IsAt(s, k, lit)
  ELSE 0

\* the last index of the line that index i is on ($ under the m flag matches
\* right after it); i - 1 when i stands on a line terminator or past the end
LineEnd(s, i) ==
  LET e == FindChar(s, i, LineTerminator) IN IF e = 0 THEN Len(s) ELSE e - 1

\* ^ under the m flag
AtLineStart(s, i) == i = 1 \/ At(s, i - 1) \in LineTerminator

\* \b between s[i-1] and s[i]
WordBoundary(s, i) == (At(s, i - 1) \in WordChar) # (At(s, i) \in WordChar)

\* a match of len characters replaced by out; len = 0: no match
NoMatch == [len |-> 0, out |-> <<>>]

Match(n, o) == [len |-> n, out |-> o]

\* the first index >= i where the expression M matches, 0 when there is none
NextMatch(s, i, M(_, _)) ==
  IF \E j \in i..Len(s) : M(s, j).len > 0
  THEN CHOOSE j \in i..Len(s) :
         M(s, j).len > 0 /\ \A k \in i..(j - 1) : M(s, k).len = 0
  ELSE 0

\* String.prototype.replace with a g-flagged expression: the matches are
\* found left to right, each search resuming after the previous match
ReplaceAll(s, M(_, _)) ==
  LET RECURSIVE go(_, _)
      go(i, acc) ==
        LET j == NextMatch(s, i, M)
        IN  IF j = 0 THEN acc \o Slice(s, i, Len(s))
            ELSE go(j + M(s, j).len, acc \o Slice(s, i, j - 1) \o M(s, j).out)
  IN  go(1, <<>>)

\* String.prototype.replace without the g flag: the leftmost match only
ReplaceFirst(s, M(_, _)) ==
  LET j == NextMatch(s, 1, M)
  IN  IF j = 0 THEN s
      ELSE Slice(s, 1, j - 1) \o M(s, j).out \o Slice(s, j + M(s, j).len, Len(s))

\* what an expression that throws leaves in place of its value: a string
\* holding it is no string of characters
TypeError == <<"TypeError">>

\* x.trim(): String.prototype.trim, a TypeError when x is undefined
trim(x) ==
  IF x = undefined THEN TypeError
  ELSE IF \A k \in 1..Len(x) : x[k] \in WhiteSpace THEN <<>>
  ELSE LET first == CHOOSE i \in 1..Len(x) :
                      x[i] \notin WhiteSpace
                        /\ \A k \in 1..(i - 1) : x[k] \in WhiteSpace
           last == CHOOSE j \in 1..Len(x) :
                     x[j] \notin WhiteSpace
                       /\ \A k \in (j + 1)..Len(x) : x[k] \in WhiteSpace
       IN  SubSeq(x, first, last)

\* String.prototype.toLowerCase on the characters of Char
LowerOf(c) ==
  CASE c = "A" -> "a" [] c = "B" -> "b" [] c = "C" -> "c" [] c = "D" -> "d"
    [] c = "E" -> "e" [] c = "F" -> "f" [] c = "G" -> "g" [] c = "H" -> "h"
    [] c = "I" -> "i" [] c = "J" -> "j" [] c = "K" -> "k" [] c = "L" -> "l"
    [] c = "M" -> "m" [] c = "N" -> "n" [] c = "O" -> "o" [] c = "P" -> "p"
    [] c = "Q" -> "q" [] c = "R" -> "r" [] c = "S" -> "s" [] c = "T" -> "t"
    [] c = "U" -> "u" [] c = "V" -> "v" [] c = "W" -> "w" [] c = "X" -> "x"
    [] c = "Y" -> "y" [] c = "Z" -> "z" [] OTHER -> c

toLowerCase(s) == [k \in 1..Len(s) |-> LowerOf(s[k])]

\* String.prototype.includes
includes(s, sub) == FindLit(s, 1, sub) # 0 \/ Len(sub) = 0

(***************************************************************************)
(* highlightCode and escapeHtml (guide-viewer.component.ts)                *)
(***************************************************************************)
\* <span class="c">
SpanOpen(c) ==
  <<"<", "s", "p", "a", "n", " ", "c", "l", "a", "s", "s", "=", "\"">>
    \o c \o <<"\"", ">">>

SpanClose == <<"<", "/", "s", "p", "a", "n", ">">>

Span(c, text) == SpanOpen(c) \o text \o SpanClose

kKeyword == <<"k", "e", "y", "w", "o", "r", "d">>
kString == <<"s", "t", "r", "i", "n", "g">>
kNumber == <<"n", "u", "m", "b", "e", "r">>
kComment == <<"c", "o", "m", "m", "e", "n", "t">>
kClass == <<"c", "l", "a", "s", "s">>
kProperty == <<"p", "r", "o", "p", "e", "r", "t", "y">>

\* the serialisation of one character of a text node (div.innerHTML after
\* div.textContent = text)
EscapeChar(c) ==
  CASE c = "&" -> <<"&", "a", "m", "p", ";">>
    [] c = "<" -> <<"&", "l", "t", ";">>
    [] c = ">" -> <<"&", "g", "t", ";">>
    [] c = NBSP -> <<"&", "n", "b", "s", "p", ";">>
    [] OTHER -> <<c>>

RECURSIVE escapeHtml(_)
\* the serialisation of the text node: of its first half, then of its second
escapeHtml(text) ==
  IF Len(text) = 0 THEN <<>>
  ELSE IF Len(text) = 1 THEN EscapeChar(text[1])
  ELSE LET h == Len(text) \div 2
       IN  escapeHtml(SubSeq(text, 1, h)) \o escapeHtml(SubSeq(text, h + 1, Len(text)))

keywords == <<
      <<"p", "u", "b", "l", "i", "c">>,
      <<"p", "r", "i", "v", "a", "t", "e">>,
      <<"p", "r", "o", "t", "e", "c", "t", "e", "d">>,
      <<"c", "l", "a", "s", "s">>,
      <<"i", "n", "t", "e", "r", "f", "a", "c", "e">>,
      <<"e", "x", "t", "e", "n", "d", "s">>,
      <<"i", "m", "p", "l", "e", "m", "e", "n", "t", "s">>,
      <<"i", "m", "p", "o", "r", "t">>,
      <<"p", "a", "c", "k", "a", "g", "e">>,
      <<"r", "e", "t", "u", "r", "n">>,
      <<"i", "f">>,
      <<"e", "l", "s", "e">>,
      <<"f", "o", "r">>,
      <<"w", "h", "i", "l", "e">>,
      <<"d", "o">>,
      <<"s", "w", "i", "t", "c", "h">>,
      <<"c", "a", "s", "e">>,
      <<"b", "r", "e", "a", "k">>,
      <<"c", "o", "n", "t", "i", "n", "u", "e">>,
      <<"n", "e", "w">>,
      <<"t", "h", "i", "s">>,
      <<"s", "u", "p", "e", "r">>,
      <<"s", "t", "a", "t", "i", "c">>,
      <<"f", "i", "n", "a", "l">>,
      <<"a", "b", "s", "t", "r", "a", "c", "t">>,
      <<"v", "o", "i", "d">>,
      <<"i", "n", "t">>,
      <<"l", "o", "n", "g">>,
      <<"d", "o", "u", "b", "l", "e">>,
      <<"f", "l", "o", "a", "t">>,
      <<"b", "o", "o", "l", "e", "a", "n">>,
      <<"S", "t", "r", "i", "n", "g">>,
      <<"c", "o", "n", "s", "t">>,
      <<"l", "e", "t">>,
      <<"v", "a", "r">>,
      <<"f", "u", "n", "c", "t", "i", "o", "n">>,
      <<"a", "s", "y", "n", "c">>,
      <<"a", "w", "a", "i", "t">>,
      <<"t", "r", "y">>,
      <<"c", "a", "t", "c", "h">>,
      <<"t", "h", "r", "o", "w">> >>

LowerHyphen == Lower \cup {"-"}

WordHyphen == WordChar \cup {"-"}

\* the last index of the longest run of characters outside C that starts at
\* i: a greedy [^C]*
RunEndNot(s, i, C) ==
  LET j == FindChar(s, i, C)
  IN  IF j # 0 THEN j - 1 ELSE IF i > Len(s) THEN i - 1 ELSE Len(s)

\* /\b(keyword)\b/g -> <span class="keyword">$1</span>
KeywordAt(s, i, keyword) ==
  IF WordBoundary(s, i) /\ IsAt(s, i, keyword)
       /\ WordBoundary(s, i + Len(keyword))
  THEN Match(Len(keyword), Span(kKeyword, keyword))
  ELSE NoMatch

\* keywords.forEach(...) from the k-th keyword on, applied to s (a function,
\* so that each pass is evaluated before the next one starts)
HighlightKeywords[k \in 1..(Len(keywords) + 1), s \in Seq(STRING)] ==
  IF k > Len(keywords) THEN s
  ELSE HighlightKeywords[
         k + 1, ReplaceAll(s, LAMBDA t, i : KeywordAt(t, i, keywords[k]))]

\* /@(\w+)/g -> <span class="keyword">@$1</span>
AnnotationAt(s, i) ==
  LET e == RunEnd(s, i + 1, WordChar)
  IN  IF s[i] = "@" /\ e >= i + 1
      THEN Match(e - i + 1, Span(kKeyword, Slice(s, i, e)))
      ELSE NoMatch

\* /q([^q]*)q/g -> <span class="string">q$1q</span>, q the double quote
\* (the first string pass) or the single quote (the second)
QuotedAt(s, i, q) ==
  LET j == FindChar(s, i + 1, {q})
  IN  IF s[i] = q /\ j # 0
      THEN Match(j - i + 1, Span(kString, Slice(s, i, j)))
      ELSE NoMatch

\* the largest b in lo..hi with a \b right after s[b], 0 when there is none:
\* a greedy run giving characters back until the closing \b matches
LastBoundary(s, hi, lo) ==
  IF \E b \in lo..hi : WordBoundary(s, b + 1)
  THEN CHOOSE b \in lo..hi :
         WordBoundary(s, b + 1) /\ \A k \in (b + 1)..hi : ~WordBoundary(s, k + 1)
  ELSE 0

RECURSIVE NumberEnd(_, _, _)
\* the end of the match of \d+\.?\d*\b from i, the \d+ ending at a or before:
\* the backtracking order is the longest \d+ first, then the . taken before
\* the . left out, then the longest \d* first
NumberEnd(s, i, a) ==
  IF a < i THEN 0
  ELSE LET withDot == IF At(s, a + 1) = "."
                      THEN LastBoundary(s, RunEnd(s, a + 2, Digit), a + 1)
                      ELSE 0
           noDot == LastBoundary(s, RunEnd(s, a + 1, Digit), a)
       IN  IF withDot # 0 THEN withDot
           ELSE IF noDot # 0 THEN noDot
           ELSE NumberEnd(s, i, a - 1)

\* /\b(\d+\.?\d*)\b/g -> <span class="number">$1</span>
NumberAt(s, i) ==
  IF s[i] \in Digit /\ WordBoundary(s, i)
  THEN LET e == NumberEnd(s, i, RunEnd(s, i, Digit))
       IN  IF e # 0 THEN Match(e - i + 1, Span(kNumber, Slice(s, i, e)))
           ELSE NoMatch
  ELSE NoMatch

\* /\/\/(.*?)$/gm -> <span class="comment">//$1</span>
LineCommentAt(s, i) ==
  IF IsAt(s, i, <<"/", "/">>)
  THEN LET e == LineEnd(s, i + 2)
       IN  Match(e - i + 1, Span(kComment, Slice(s, i, e)))
  ELSE NoMatch

\* /\/\*([\s\S]*?)\*\//g -> <span class="comment">/*$1*/</span>
BlockCommentAt(s, i) ==
  IF IsAt(s, i, <<"/", "*">>)
  THEN LET j == FindLit(s, i + 2, <<"*", "/">>)
       IN  IF j # 0 THEN Match(j + 1 - i + 1, Span(kComment, Slice(s, i, j + 1)))
           ELSE NoMatch
  ELSE NoMatch

\* /\b([A-Z]\w+)\b/g -> <span class="class">$1</span>
ClassNameAt(s, i) ==
  IF s[i] \in Upper /\ WordBoundary(s, i)
  THEN LET e == RunEnd(s, i + 1, WordChar)
       IN  IF e >= i + 1 THEN Match(e - i + 1, Span(kClass, Slice(s, i, e)))
           ELSE NoMatch
  ELSE NoMatch

\* /([a-z-]+):/g -> <span class="property">$1</span>:
CssPropertyAt(s, i) ==
  IF s[i] \in LowerHyphen
  THEN LET e == RunEnd(s, i, LowerHyphen)
       IN  IF At(s, e + 1) = ":"
           THEN Match(e - i + 2, Span(kProperty, Slice(s, i, e)) \o <<":">>)
           ELSE NoMatch
  ELSE NoMatch

\* /:([^;{]+)/g -> : <span class="string">$1</span>
CssValueAt(s, i) ==
  IF s[i] = ":"
  THEN LET e == RunEndNot(s, i + 1, {";", "{"})
       IN  IF e >= i + 1
           THEN Match(e - i + 1, <<":", " ">> \o Span(kString, Slice(s, i + 1, e)))
           ELSE NoMatch
  ELSE NoMatch

\* /^([.#]?[\w-]+)(\s*{)?/gm -> <span class="class">$1</span>$2
CssSelectorAt(s, i) ==
  IF AtLineStart(s, i)
  THEN LET p == IF s[i] \in {".", "#"} THEN i + 1 ELSE i
           e == RunEnd(s, p, WordHyphen)
           w == RunEnd(s, e + 1, WhiteSpace)
           brace == At(s, w + 1) = "{"
           end == IF brace THEN w + 1 ELSE e
       IN  IF e >= p
           THEN Match(end - i + 1,
                      Span(kClass, Slice(s, i, e)) \o Slice(s, e + 1, end))
           ELSE NoMatch
  ELSE NoMatch

\* (px|em|rem|%|vh|vw)
units == << <<"p", "x">>, <<"e", "m">>, <<"r", "e", "m">>, <<"%">>,
            <<"v", "h">>, <<"v", "w">> >>

RECURSIVE UnitLen(_, _, _)
\* the length of the first alternative of units, from the k-th on, that
\* stands at index i; 0 when none does
UnitLen(s, i, k) ==
  IF k > Len(units) THEN 0
  ELSE IF IsAt(s, i, units[k]) THEN Len(units[k]) ELSE UnitLen(s, i, k + 1)

\* /(\d+)(px|em|rem|%|vh|vw)?/g -> <span class="number">$1$2</span>
CssNumberAt(s, i) ==
  IF s[i] \in Digit
  THEN LET e == RunEnd(s, i, Digit)
           end == e + UnitLen(s, e + 1, 1)
       IN  Match(end - i + 1, Span(kNumber, Slice(s, i, end)))
  ELSE NoMatch

ltEntity == <<"&", "l", "t", ";">>

\* /&lt;(\/?[\w-]+)/g -> &lt;<span class="keyword">$1</span>
TagNameAt(s, i) ==
  IF IsAt(s, i, ltEntity)
  THEN LET p == IF At(s, i + 4) = "/" THEN i + 5 ELSE i + 4
           e == RunEnd(s, p, WordHyphen)
       IN  IF e >= p
           THEN Match(e - i + 1, ltEntity \o Span(kKeyword, Slice(s, i + 4, e)))
           ELSE NoMatch
  ELSE NoMatch

\* /(\w+)=/g -> <span class="property">$1</span>=
AttrNameAt(s, i) ==
  IF s[i] \in WordChar
  THEN LET e == RunEnd(s, i, WordChar)
       IN  IF At(s, e + 1) = "="
           THEN Match(e - i + 2, Span(kProperty, Slice(s, i, e)) \o <<"=">>)
           ELSE NoMatch
  ELSE NoMatch

\* /=q([^q]*)q/g -> =<span class="string">q$1q</span>, q the double quote
AttrValueAt(s, i) ==
  IF IsAt(s, i, <<"=", "\"">>)
  THEN LET j == FindChar(s, i + 2, {"\""})
       IN  IF j # 0
           THEN Match(j - i + 1, <<"=">> \o Span(kString, Slice(s, i + 1, j)))
           ELSE NoMatch
  ELSE NoMatch

sJava == <<"j", "a", "v", "a">>
sJavascript == <<"j", "a", "v", "a", "s", "c", "r", "i", "p", "t">>
sTypescript == <<"t", "y", "p", "e", "s", "c", "r", "i", "p", "t">>
sJs == <<"j", "s">>
sTs == <<"t", "s">>
sCss == <<"c", "s", "s">>
sScss == <<"s", "c", "s", "s">>
sHtml == <<"h", "t", "m", "l">>
sXml == <<"x", "m", "l">>

\* the java | javascript | typescript | js | ts branch
HighlightJava(escaped) ==
  LET h1 == HighlightKeywords[1, escaped]
      h2 == ReplaceAll(h1, AnnotationAt)
      h3 == ReplaceAll(h2, LAMBDA t, i : QuotedAt(t, i, "\""))
      h4 == ReplaceAll(h3, LAMBDA t, i : QuotedAt(t, i, "'"))
      h5 == ReplaceAll(h4, NumberAt)
      h6 == ReplaceAll(h5, LineCommentAt)
      h7 == ReplaceAll(h6, BlockCommentAt)
  IN  ReplaceAll(h7, ClassNameAt)

\* the css | scss branch
HighlightCss(escaped) ==
  LET h1 == ReplaceAll(escaped, CssPropertyAt)
      h2 == ReplaceAll(h1, CssValueAt)
      h3 == ReplaceAll(h2, CssSelectorAt)
      h4 == ReplaceAll(h3, CssNumberAt)
  IN  ReplaceAll(h4, BlockCommentAt)

\* the html | xml branch
HighlightHtml(escaped) ==
  LET h1 == ReplaceAll(escaped, TagNameAt)
      h2 == ReplaceAll(h1, AttrNameAt)
  IN  ReplaceAll(h2, AttrValueAt)

JavaLangs == {sJava, sJavascript, sTypescript, sJs, sTs}

CssLangs == {sCss, sScss}

HtmlLangs == {sHtml, sXml}

\* highlightCode as it would be if it compared lang without its letter case
highlightCodeAnyCase(code, lang) ==
  LET highlighted == escapeHtml(code)
      lower == IF lang = undefined THEN lang ELSE toLowerCase(lang)
  IN  IF lower \in JavaLangs THEN HighlightJava(highlighted)
      ELSE IF lower \in CssLangs THEN HighlightCss(highlighted)
      ELSE IF lower \in HtmlLangs THEN HighlightHtml(highlighted)
      ELSE highlighted

highlightCode(code, lang) ==
  LET highlighted == escapeHtml(code)
  IN  IF lang \in JavaLangs THEN HighlightJava(highlighted)
      ELSE IF lang \in CssLangs THEN HighlightCss(highlighted)
      ELSE IF lang \in HtmlLangs THEN HighlightHtml(highlighted)
      ELSE highlighted

(***************************************************************************)
(* renderMarkdown (guide-viewer.component.ts)                              *)
(***************************************************************************)
\* the literal lit (in lower case) stands at index i of s, letter case
\* ignored: the i flag
IsAtI(s, i, lit) ==
  /\ i >= 1
  /\ i + Len(lit) - 1 <= Len(s)
  /\ \A k \in 1..Len(lit) : LowerOf(s[i + k - 1]) = lit[k]

\* the last index in lo..hi where the literal lit stands, 0 when there is none
FindLastLit(s, hi, lo, lit) ==
  IF \E j \in lo..hi : IsAt(s, j, lit)
  THEN CHOOSE j \in lo..hi :
         IsAt(s, j, lit) /\ \A k \in (j + 1)..hi : ~IsAt(s, k, lit)
  ELSE 0

\* <name> and </name>
Tag(name) == <<"<">> \o name \o <<">">>

EndTag(name) == <<"<", "/">> \o name \o <<">">>

Hashes(n) == [k \in 1..n |-> "#"]

\* /^### (.*$)/gim -> <h3>$1</h3>, and the same for ## and #
HeaderAt(s, i, n) ==
  IF AtLineStart(s, i) /\ IsAt(s, i, Hashes(n) \o <<" ">>)
  THEN LET e == LineEnd(s, i + n + 1)
           h == <<"h", <<"1", "2", "3">>[n]>>
       IN  Match(e - i + 1, Tag(h) \o Slice(s, i + n + 1, e) \o EndTag(h))
  ELSE NoMatch

\* BoldAt as it would be if the italic pass had run first and left no **
BoldNever(s, i) == NoMatch

\* /\*\*(.*?)\*\*/gim -> <strong>$1</strong>
BoldAt(s, i) ==
  IF IsAt(s, i, <<"*", "*">>)
  THEN LET j == FindLit(s, i + 2, <<"*", "*">>)
       IN  IF j # 0 /\ j + 1 <= LineEnd(s, i + 2)
           THEN Match(j + 1 - i + 1,
                      <<"<", "s", "t", "r", "o", "n", "g", ">">>
                        \o Slice(s, i + 2, j - 1)
                        \o <<"<", "/", "s", "t", "r", "o", "n", "g", ">">>)
           ELSE NoMatch
  ELSE NoMatch

\* /\*(.*?)\*/gim -> <em>$1</em>
ItalicAt(s, i) ==
  IF s[i] = "*"
  THEN LET j == FindChar(s, i + 1, {"*"})
       IN  IF j # 0 /\ j <= LineEnd(s, i + 1)
           THEN Match(j - i + 1,
                      <<"<", "e", "m", ">">> \o Slice(s, i + 1, j - 1)
                        \o <<"<", "/", "e", "m", ">">>)
           ELSE NoMatch
  ELSE NoMatch

fence == <<BT, BT, BT>>

\* CodeBlock as it would be if it trimmed lang as it trims code
CodeBlockTrimsLang(lang, code) ==
  IF trim(lang) = TypeError THEN TypeError
  ELSE <<"<", "c", "o", "d", "e", ">">>
         \o highlightCode(trim(code), trim(lang))
         \o <<"<", "/", "c", "o", "d", "e", ">">>

\* the callback of the code-block pass: lang and code are the two groups
CodeBlock(lang, code) ==
  LET highlightedCode == highlightCode(trim(code), lang)
  IN  <<"<", "d", "i", "v", " ", "c", "l", "a", "s", "s", "=", "\"", "c", "o",
        "d", "e", "-", "w", "r", "a", "p", "p", "e", "r", "\"", ">", "<", "p",
        "r", "e", ">", "<", "c", "o", "d", "e", " ", "c", "l", "a", "s", "s",
        "=", "\"", "l", "a", "n", "g", "u", "a", "g", "e", "-">>
        \o (IF lang = undefined THEN <<"t", "e", "x", "t">> ELSE lang)
        \o <<"\"", ">">> \o highlightedCode
        \o <<"<", "/", "c", "o", "d", "e", ">", "<", "/", "p", "r", "e", ">",
             "<", "/", "d", "i", "v", ">">>

\* /```(\w+)?\n([\s\S]*?)```/gim -> CodeBlock($1, $2)
FenceAt(s, i) ==
  IF IsAt(s, i, fence)
  THEN LET w == RunEnd(s, i + 3, WordChar)
           lang == IF w >= i + 3 THEN Slice(s, i + 3, w) ELSE undefined
           j == FindLit(s, w + 2, fence)
       IN  IF At(s, w + 1) = "\n" /\ j # 0
           THEN Match(j + 2 - i + 1, CodeBlock(lang, Slice(s, w + 2, j - 1)))
           ELSE NoMatch
  ELSE NoMatch

\* /`([^`]+)`/gim -> <code>$1</code>
InlineCodeAt(s, i) ==
  IF s[i] = BT
  THEN LET j == FindChar(s, i + 1, {BT})
       IN  IF j > i + 1
           THEN Match(j - i + 1,
                      <<"<", "c", "o", "d", "e", ">">> \o Slice(s, i + 1, j - 1)
                        \o <<"<", "/", "c", "o", "d", "e", ">">>)
           ELSE NoMatch
  ELSE NoMatch

\* LinkAt as it would be if $1 and $2 were exchanged in the replacement
LinkSwapped(s, i) ==
  IF s[i] = "["
  THEN LET j == FindChar(s, i + 1, {"]"})
           k == IF j = 0 THEN 0 ELSE FindChar(s, j + 2, {")"})
       IN  IF j > i + 1 /\ At(s, j + 1) = "(" /\ k > j + 2
           THEN Match(k - i + 1,
                      <<"<", "a", " ", "h", "r", "e", "f", "=", "\"">>
                        \o Slice(s, i + 1, j - 1)
                        \o <<"\"", " ", "t", "a", "r", "g", "e", "t", "=", "\"",
                             "_", "b", "l", "a", "n", "k", "\"", ">">>
                        \o Slice(s, j + 2, k - 1) \o <<"<", "/", "a", ">">>)
           ELSE NoMatch
  ELSE NoMatch

\* /\[([^\]]+)\]\(([^)]+)\)/gim -> <a href="$2" target="_blank">$1</a>
LinkAt(s, i) ==
  IF s[i] = "["
  THEN LET j == FindChar(s, i + 1, {"]"})
           k == IF j = 0 THEN 0 ELSE FindChar(s, j + 2, {")"})
       IN  IF j > i + 1 /\ At(s, j + 1) = "(" /\ k > j + 2
           THEN Match(k - i + 1,
                      <<"<", "a", " ", "h", "r", "e", "f", "=", "\"">>
                        \o Slice(s, j + 2, k - 1)
                        \o <<"\"", " ", "t", "a", "r", "g", "e", "t", "=", "\"",
                             "_", "b", "l", "a", "n", "k", "\"", ">">>
                        \o Slice(s, i + 1, j - 1) \o <<"<", "/", "a", ">">>)
           ELSE NoMatch
  ELSE NoMatch

li == <<"l", "i">>

\* /^\- (.*$)/gim -> <li>$1</li>
ListItemAt(s, i) ==
  IF AtLineStart(s, i) /\ IsAt(s, i, <<"-", " ">>)
  THEN LET e == LineEnd(s, i + 2)
       IN  Match(e - i + 1, Tag(li) \o Slice(s, i + 2, e) \o EndTag(li))
  ELSE NoMatch

\* the wrap pass without its s flag: . stops at a line terminator, so the
\* match ends at the last </li> of the first item's line
ListWrapFirstLine(s, i) ==
  IF IsAt(s, i, Tag(li))
  THEN LET j == FindLastLit(s, LineEnd(s, i) - 4, i + 4, EndTag(li))
       IN  IF j # 0
           THEN Match(j + 4 - i + 1,
                      <<"<", "u", "l", ">">> \o Slice(s, i, j + 4)
                        \o <<"<", "/", "u", "l", ">">>)
           ELSE NoMatch
  ELSE NoMatch

\* /(<li>.*<\/li>)/s -> <ul>$1</ul>: . matches line terminators too, and the
\* greedy .* runs to the last </li> of the string
ListWrapAt(s, i) ==
  IF IsAt(s, i, Tag(li))
  THEN LET j == FindLastLit(s, Len(s) - 4, i + 4, EndTag(li))
       IN  IF j # 0
           THEN Match(j + 4 - i + 1,
                      <<"<", "u", "l", ">">> \o Slice(s, i, j + 4)
                        \o <<"<", "/", "u", "l", ">">>)
           ELSE NoMatch
  ELSE NoMatch

\* /^\d+\. (.*$)/gim -> <li>$1</li>
OrderedItemAt(s, i) ==
  LET d == RunEnd(s, i, Digit)
  IN  IF AtLineStart(s, i) /\ d >= i /\ IsAt(s, d + 1, <<".", " ">>)
      THEN LET e == LineEnd(s, d + 3)
           IN  Match(e - i + 1, Tag(li) \o Slice(s, d + 3, e) \o EndTag(li))
      ELSE NoMatch

\* /^---$/gim -> <hr>
RuleAt(s, i) ==
  IF AtLineStart(s, i) /\ IsAt(s, i, <<"-", "-", "-">>)
       /\ (i + 3 > Len(s) \/ At(s, i + 3) \in LineTerminator)
  THEN Match(3, <<"<", "h", "r", ">">>)
  ELSE NoMatch

\* /\n\n/gim -> </p><p>
ParagraphAt(s, i) ==
  IF IsAt(s, i, <<"\n", "\n">>)
  THEN Match(2, <<"<", "/", "p", ">", "<", "p", ">">>)
  ELSE NoMatch

pOpen == <<"<", "p", ">">>

pClose == <<"<", "/", "p", ">">>

\* a clean-up expression /pre(keep)post/gim -> $1, with pre, keep and post
\* literals in lower case
CleanupAt(s, i, pre, keep, post) ==
  IF IsAtI(s, i, pre \o keep \o post)
  THEN Match(Len(pre) + Len(keep) + Len(post),
             Slice(s, i + Len(pre), i + Len(pre) + Len(keep) - 1))
  ELSE NoMatch

\* HeadingOpenAt as it would be if the <p> before a heading were kept
HeadingOpenKept(s, i) == NoMatch

\* /<p>(<h[1-6]>)/gim -> $1
HeadingOpenAt(s, i) ==
  IF IsAtI(s, i, <<"<", "p", ">", "<", "h">>)
       /\ At(s, i + 5) \in {"1", "2", "3", "4", "5", "6"} /\ At(s, i + 6) = ">"
  THEN Match(7, Slice(s, i + 3, i + 6))
  ELSE NoMatch

\* /(<\/h[1-6]>)<\/p>/gim -> $1
HeadingCloseAt(s, i) ==
  IF IsAtI(s, i, <<"<", "/", "h">>)
       /\ At(s, i + 3) \in {"1", "2", "3", "4", "5", "6"}
       /\ IsAtI(s, i + 4, <<">", "<", "/", "p", ">">>)
  THEN Match(9, Slice(s, i, i + 4))
  ELSE NoMatch

ulOpen == <<"<", "u", "l", ">">>

ulClose == <<"<", "/", "u", "l", ">">>

wrapperOpen == <<"<", "d", "i", "v", " ", "c", "l", "a", "s", "s", "=", "\"",
                 "c", "o", "d", "e", "-", "w", "r", "a", "p", "p", "e", "r",
                 "\"", ">">>

divClose == <<"<", "/", "d", "i", "v", ">">>

hr == <<"<", "h", "r", ">">>

\* the number of passes of renderMarkdown, one per assignment to html
NumPasses == 22

\* the k-th assignment to html in renderMarkdown
RenderPass(k, s) ==
  CASE k = 1 -> ReplaceAll(s, LAMBDA t, i : HeaderAt(t, i, 3))
    [] k = 2 -> ReplaceAll(s, LAMBDA t, i : HeaderAt(t, i, 2))
    [] k = 3 -> ReplaceAll(s, LAMBDA t, i : HeaderAt(t, i, 1))
    [] k = 4 -> ReplaceAll(s, BoldAt)
    [] k = 5 -> ReplaceAll(s, ItalicAt)
    [] k = 6 -> ReplaceAll(s, FenceAt)
    [] k = 7 -> ReplaceAll(s, InlineCodeAt)
    [] k = 8 -> ReplaceAll(s, LinkAt)
    [] k = 9 -> ReplaceAll(s, ListItemAt)
    [] k = 10 -> ReplaceFirst(s, ListWrapAt)
    [] k = 11 -> ReplaceAll(s, OrderedItemAt)
    [] k = 12 -> ReplaceAll(s, RuleAt)
    [] k = 13 -> ReplaceAll(s, ParagraphAt)
    [] k = 14 -> pOpen \o s \o pClose
    [] k = 15 -> ReplaceAll(s, LAMBDA t, i : CleanupAt(t, i, <<>>, <<>>, pOpen \o pClose))
    [] k = 16 -> ReplaceAll(s, HeadingOpenAt)
    [] k = 17 -> ReplaceAll(s, HeadingCloseAt)
    [] k = 18 -> ReplaceAll(s, LAMBDA t, i : CleanupAt(t, i, pOpen, ulOpen, <<>>))
    [] k = 19 -> ReplaceAll(s, LAMBDA t, i : CleanupAt(t, i, <<>>, ulClose, pClose))
    [] k = 20 -> ReplaceAll(s, LAMBDA t, i : CleanupAt(t, i, pOpen, wrapperOpen, <<>>))
    [] k = 21 -> ReplaceAll(s, LAMBDA t, i : CleanupAt(t, i, <<>>, divClose, pClose))
    [] k = 22 -> ReplaceAll(s, LAMBDA t, i : CleanupAt(t, i, pOpen, hr, pClose))

\* the passes k..NumPasses applied in order to s (a function, so that each
\* pass is evaluated before the next one starts)
RenderFrom[k \in 1..(NumPasses + 1), s \in Seq(STRING)] ==
  IF k > NumPasses THEN s ELSE RenderFrom[k + 1, RenderPass(k, s)]

renderMarkdown(markdown) == RenderFrom[1, markdown]

(***************************************************************************)
(* GuideService (guide.model.ts, from line 66 on)                          *)
(***************************************************************************)
\* the members of GuideCategory that the modelled catalogs use
BACKEND == "Backend Java/Spring"

ARCHITECTURE == "Architecture & Conception"

\* what getGuideById returns when find matches nothing, and the viewer's
\* guide field before the first loadGuide: a record, to be comparable with
\* the guide records
undefinedGuide == [undefined |-> TRUE]

\* this.guidesSubject.value.find(g => g.id === id)
getGuideById(gs, id) ==
  IF \E i \in 1..Len(gs) : gs[i].id = id
  THEN gs[CHOOSE i \in 1..Len(gs) :
            gs[i].id = id /\ \A k \in 1..(i - 1) : gs[k].id # id]
  ELSE undefinedGuide

\* Array.prototype.sort((a, b) => a.order - b.order) step: x put into the
\* sorted list after every element whose order is not larger (sort is stable)
\* InsertByOrder as it would be if the sort were not stable
InsertBeforeEqual(sorted, x) ==
  LET n == Cardinality({i \in 1..Len(sorted) : sorted[i].order < x.order})
  IN  SubSeq(sorted, 1, n) \o <<x>> \o SubSeq(sorted, n + 1, Len(sorted))

InsertByOrder(sorted, x) ==
  LET n == Cardinality({i \in 1..Len(sorted) : sorted[i].order <= x.order})
  IN  SubSeq(sorted, 1, n) \o <<x>> \o SubSeq(sorted, n + 1, Len(sorted))

RECURSIVE SortByOrder(_)
\* list.sort((a, b) => a.order - b.order)
SortByOrder(list) ==
  IF list = <<>> THEN <<>>
  ELSE InsertByOrder(SortByOrder(SubSeq(list, 1, Len(list) - 1)), list[Len(list)])

\* this.guidesSubject.value.filter(g => g.category === category).sort(...)
getGuidesByCategory(gs, category) ==
  SortByOrder(SelectSeq(gs, LAMBDA g : g.category = category))

\* the predicate of the filter in searchGuides
\* SearchMatches as it would be if the tags were not searched
SearchMatchesNoTags(g, lowerQuery) ==
  \/ includes(toLowerCase(g.title), lowerQuery)
  \/ includes(toLowerCase(g.content), lowerQuery)

SearchMatches(g, lowerQuery) ==
  \/ includes(toLowerCase(g.title), lowerQuery)
  \/ includes(toLowerCase(g.content), lowerQuery)
  \/ \E t \in 1..Len(g.tags) : includes(toLowerCase(g.tags[t]), lowerQuery)

searchGuides(gs, query) ==
  LET lowerQuery == toLowerCase(query)
  IN  SelectSeq(gs, LAMBDA g : SearchMatches(g, lowerQuery))

\* markAsViewed as it would be if it added the marked copy to the list
markAsViewedAppends(gs, id) ==
  gs \o SelectSeq([i \in 1..Len(gs) |-> [gs[i] EXCEPT !.isViewed = TRUE]],
                  LAMBDA g : g.id = id)

\* markAsViewed as it would be if it marked every record
markAllAsViewed(gs, id) ==
  [i \in 1..Len(gs) |-> [gs[i] EXCEPT !.isViewed = TRUE]]

\* markAsViewed as it would be if it flipped the flag of the record
toggleViewed(gs, id) ==
  [i \in 1..Len(gs) |->
     IF gs[i].id = id THEN [gs[i] EXCEPT !.isViewed = ~gs[i].isViewed]
     ELSE gs[i]]

\* markAsViewed as it would be if it kept the flag on the last record only
markOnlyAsViewed(gs, id) ==
  [i \in 1..Len(gs) |-> [gs[i] EXCEPT !.isViewed = (gs[i].id = id)]]

\* the list that markAsViewed hands to guidesSubject.next
markAsViewed(gs, id) ==
  [i \in 1..Len(gs) |->
     IF gs[i].id = id THEN [gs[i] EXCEPT !.isViewed = TRUE] ELSE gs[i]]

(***************************************************************************)
(* DashboardComponent.getGuidesByCategory (unnamed/part_000)               *)
(***************************************************************************)
\* selectedCategory before ngOnInit
null == "null"

\* getGuidesByCategory(guides) of the dashboard whose selectedCategory is
\* selected
DashboardGuides(selected, gs) ==
  IF selected = null THEN gs
  ELSE SortByOrder(SelectSeq(gs, LAMBDA g : g.category = selected))

(***************************************************************************)
(* State                                                                   *)
(***************************************************************************)
VARIABLES
  guides,            \* GuideService: guidesSubject.value
  received,          \* the observers of guides$: the list each received last
  guide,             \* GuideViewerComponent.guide
  renderedContent,   \* GuideViewerComponent.renderedContent
  url,               \* the router's location
  timers,            \* the number of pending setTimeout callbacks
  wrappers,          \* the .code-wrapper elements of the document, in
                     \* document order
  vpc,               \* GuideViewerComponent: "constructed", "ngOnInit" once
                     \* the route has delivered its first parameters, then
                     \* "ngAfterViewInit"
  selectedCategory,  \* DashboardComponent.selectedCategory
  isSidebarOpen,     \* DashboardComponent.isSidebarOpen
  dpc,               \* DashboardComponent: "constructed", then "initialized"
                     \* once ngOnInit has run
  op,                \* the last operation called, with its argument
  result,            \* what the last operation returned
  markdown,          \* renderMarkdown: its argument
  html,              \* renderMarkdown: the local html
  pc,                \* renderMarkdown: the next pass, NumPasses + 1 once
                     \* returned, 0 once an exception has left the function
  code,              \* highlightCode: its first argument
  lang,              \* highlightCode: its second argument
  highlighted,       \* highlightCode: the value returned
  hpc                \* highlightCode: "call" before the call, "return" after

catalogVars == <<guides, received>>

viewerVars == <<guide, renderedContent, url, timers, wrappers, vpc>>

dashboardVars == <<selectedCategory, isSidebarOpen, dpc>>

callVars == <<op, result>>

renderVars == <<markdown, html, pc>>

highlightVars == <<code, lang, highlighted, hpc>>

vars == <<catalogVars, viewerVars, dashboardVars, callVars, renderVars,
          highlightVars>>

IsString(x) == x \in Seq(Char)

(***************************************************************************)
(* Inputs                                                                  *)
(***************************************************************************)
RECURSIVE Texts(_, _)
\* the strings made of at most n of the given parts
Texts(parts, n) ==
  IF n = 0 THEN {<<>>}
  ELSE {<<>>} \cup {p \o t : p \in parts, t \in Texts(parts, n - 1)}

MaxCodeParts == 2

CodeParts ==
  { <<"<">>, <<">">>, <<"&">>, <<"a">>, <<"B", "c">>, <<"1">>, <<":">>,
    <<";">>, <<"=">>, <<"\"">>, <<" ">> }

CodeSamples ==
  { <<"p", "u", "b", "l", "i", "c", " ", "c", "l", "a", "s", "s", " ", "F",
      "o", "o", " ", "{", "}">>,
    <<"<", "s", "c", "r", "i", "p", "t", ">">>,
    <<"a", ":", "<", "b">>,
    <<"<", "d", "i", "v", " ", "i", "d", "=", "\"", "a", "\"", ">">> }

Codes == Texts(CodeParts, MaxCodeParts) \cup CodeSamples

Langs ==
  { undefined, sJava, sJavascript, sTypescript, sJs, sTs, sCss, sScss, sHtml,
    sXml, <<"J", "a", "v", "a">>, <<"t", "e", "x", "t">>, <<"s", "h">> }

MaxMarkdownParts == 3

MarkdownParts ==
  { <<"#", " ">>, <<"a">>, <<"\n">>, <<"*">>, <<BT>>, fence, <<"-", " ">>,
    <<"-", "-", "-">> }

\* ```java\npublic class Foo {}\n```
JavaFooMarkdown ==
  <<BT, BT, BT, "j", "a", "v", "a", "\n", "p", "u", "b", "l", "i", "c", " ",
    "c", "l", "a", "s", "s", " ", "F", "o", "o", " ", "{", "}", "\n", BT, BT,
    BT>>

\* documents of the shapes the passes are written for: the java fence, single
\* headers, **b** and *i*, [label](url), two runs of list items, a fence
\* whose code holds backticks, fence markers that are not a fence, fences
\* whose code holds a # line or a block comment, and a header line followed
\* by text
MarkdownSamples ==
  LET texts == { <<>>, <<"a">>, <<"b", " ", "c">>,
                 <<"[", "a", "]", "(", "a", ")">>,
                 <<"<", "p", ">", "<", "/", "p", ">">> }
      labels == { <<>>, <<"a">>, <<"a", " ", "b">>, <<"*", "a", "*">> }
      urls == { <<>>, <<"b">>, <<"h", "t", "t", "p", ":", "/", "/", "e", ".", "c">>,
                <<"b", "*", "c", "*">> }
  IN  {JavaFooMarkdown}
        \cup { <<"#", "#", " ", "a">>,
               <<"#", "#", "#", " ", "a">>,
               <<"#", " ", "T", "i", "t", "l", "e">>,
               <<"#", "#", "#", " ", "a", " ", "b">> }
        \cup { <<"*", "*">> \o b \o <<"*", "*", " ", "a", "n", "d", " ", "*">>
                 \o i \o <<"*">> : b \in texts, i \in texts }
        \cup { <<"[">> \o l \o <<"]", "(">> \o u \o <<")">> :
                 l \in labels, u \in urls }
        \cup { <<"-", " ", "a", "\n", "\n", "b", "\n", "\n", "-", " ", "c">>,
               <<"-", " ", "a", "\n", "-", " ", "b">>,
               <<BT, BT, BT, "\n", BT, "a", BT, "\n", BT, BT, BT>>,
               <<BT, BT, BT, " ", "a", " ", BT, BT, BT, " ", "b">>,
               <<BT, BT, BT, "\n", "a">>,
               <<BT, BT, BT, "j", "s", "\n", "a">>,
               <<BT, BT, BT, "\n", "#", " ", "c", "\n", BT, BT, BT>>,
               <<BT, BT, BT, "\n", "/", "*", " ", "a", " ", "*", "/", "\n",
                 BT, BT, BT>>,
               <<"#", " ", "a", "\n", "b">> }

Markdowns == Texts(MarkdownParts, MaxMarkdownParts) \cup MarkdownSamples

\* a guide record; isViewed = FALSE is the optional field left unset
Guide(id, title, category, order, tags, content) ==
  [id |-> id, title |-> title, category |-> category, order |-> order,
   tags |-> tags, content |-> content, isViewed |-> FALSE]

\* the records the modelled catalogs are made of: the literal list of
\* initializeGuides cut down to short titles, tags and contents
GuideA ==
  Guide("backend-repositories", <<"R", "e", "p", "o">>, BACKEND, 2,
        << <<"J", "P", "A">>, <<"A", "p", "i">> >>,
        <<"*", "*", "C", "r", "u", "d", "*", "*">>)

GuideB ==
  Guide("backend-entites", <<"J", "P", "A">>, BACKEND, 1,
        << <<"D", "b">> >>, <<"#", " ", "J", "p", "a">>)

GuideC ==
  Guide("architecture-uml", <<"U", "M", "L">>, ARCHITECTURE, 1,
        <<>>, <<"-", " ", "U", "m", "l", "\n", "\n", BT, "a", BT>>)

GuideD ==
  Guide("backend-dto", <<"D", "t", "o">>, BACKEND, 1,
        << <<"A", "p", "i">> >>, <<"d", "t", "o">>)

\* a guide whose content holds two fenced blocks
GuideE ==
  Guide("docker-intro", <<"D", "o", "c", "k", "e", "r">>, "Docker", 1, <<>>,
        <<BT, BT, BT, "\n", "a", "\n", BT, BT, BT, "\n", "\n",
          BT, BT, BT, "\n", "b", "\n", BT, BT, BT>>)

\* the lists without a repeated record made of the records of pool
Arrangements(pool) ==
  UNION {{s \in [1..n -> pool] : \A i, j \in 1..n : i # j => s[i] # s[j]} :
         n \in 0..Cardinality(pool)}

\* the catalogs of the specification of the viewer, and those of the
\* specification of the dashboard
ViewerCatalogs == Arrangements({GuideA, GuideB, GuideC})

DashboardCatalogs == Arrangements({GuideA, GuideB, GuideC, GuideD})

\* the ids the operations of the viewer's specification are called with, and
\* those of the dashboard's
Ids == {"backend-repositories", "backend-entites", "architecture-uml",
        "no-such-guide"}

DashboardIds == Ids \cup {"backend-dto"}

Categories == {BACKEND, ARCHITECTURE, "Tests"}

Queries == { <<>>, <<"j", "p", "a">>, <<"A", "P", "I">>, <<"z", "z">> }

\* the cap on the pending setTimeout callbacks
MaxTimers == 1

\* the cap on the observers of guides$
MaxObservers == 2

\* the routes guide/:id and dashboard of app.routes.ts
GuideRoute == <<"/guide">>

DashboardRoute == <<"/dashboard">>

(***************************************************************************)
(* Idle values of the parts of the state a specification does not use      *)
(***************************************************************************)
HighlightIdle ==
  /\ code = <<>>
  /\ lang = undefined
  /\ highlighted = <<>>
  /\ hpc = "idle"

RenderIdle ==
  /\ markdown = <<>>
  /\ html = <<>>
  /\ pc = NumPasses + 1

\* the viewer as constructed on its route: guide undefined,
\* renderedContent ''
ViewerInit ==
  /\ guide = undefinedGuide
  /\ renderedContent = <<>>
  /\ url = GuideRoute
  /\ timers = 0
  /\ wrappers = <<>>
  /\ vpc = "constructed"

\* the dashboard as constructed
DashboardInit ==
  /\ selectedCategory = null
  /\ isSidebarOpen = TRUE
  /\ dpc = "constructed"

CallInit ==
  /\ op = [name |-> "none"]
  /\ result = undefined

CatalogIdle ==
  /\ guides = <<>>
  /\ received = <<>>
  /\ ViewerInit
  /\ DashboardInit
  /\ CallInit

(***************************************************************************)
(* GuideService operations                                                 *)
(***************************************************************************)
Call(name, arg, value) ==
  /\ op' = [name |-> name, arg |-> arg]
  /\ result' = value

\* markAsViewed as it would be if it replaced the list of the service
\* without handing it to next
MarkAsViewedUnpublished(id) ==
  /\ guides' = markAsViewed(guides, id)
  /\ Call("markAsViewed", id, undefined)
  /\ UNCHANGED received

\* guidesSubject.next(guides): every observer receives the new list
MarkAsViewed(id) ==
  /\ guides' = markAsViewed(guides, id)
  /\ received' = [o \in DOMAIN received |-> guides']
  /\ Call("markAsViewed", id, undefined)

\* getGuides returns guides$, the subject seen as an observable
GetGuides ==
  /\ Call("getGuides", undefined, <<"guides$">>)
  /\ UNCHANGED catalogVars

\* an observer subscribes to guides$: the BehaviorSubject delivers its
\* current value to it at once
Subscribe ==
  /\ Len(received) < MaxObservers
  /\ received' = Append(received, guides)
  /\ Call("subscribe", undefined, undefined)
  /\ UNCHANGED guides

GetGuideById(id) ==
  /\ Call("getGuideById", id, getGuideById(guides, id))
  /\ UNCHANGED catalogVars

GetGuidesByCategory(category) ==
  /\ Call("getGuidesByCategory", category, getGuidesByCategory(guides, category))
  /\ UNCHANGED catalogVars

SearchGuides(query) ==
  /\ Call("searchGuides", query, searchGuides(guides, query))
  /\ UNCHANGED catalogVars

ServiceNext ==
  \/ \E id \in Ids : MarkAsViewed(id)
  \/ \E id \in Ids : GetGuideById(id)
  \/ \E c \in Categories : GetGuidesByCategory(c)
  \/ \E q \in Queries : SearchGuides(q)

(***************************************************************************)
(* Spec: the guide service and the guide viewer                            *)
(***************************************************************************)
Init ==
  /\ guides \in ViewerCatalogs
  /\ received = <<>>
  /\ ViewerInit
  /\ DashboardInit
  /\ CallInit
  /\ RenderIdle
  /\ HighlightIdle

\* navigate(target) of the router
navigate(target) == url' = target

\* the elements the view shows for a rendered content: one new element for
\* each code-wrapper div of the HTML, with no class of the scroll indicator
\* and no scroll listener. overflowed and lastScroll record what has
\* happened to the element: a scan has found its content higher than its
\* box; the distance scrollHeight - scrollTop - clientHeight from the bottom
\* that its latest scroll event found (-1 before the first)
Mounted(content) ==
  [k \in 1..Cardinality({i \in 1..Len(content) : IsAt(content, i, wrapperOpen)})
     |-> [hasScroll |-> FALSE, scrolledBottom |-> FALSE, listeners |-> 0,
          overflowed |-> FALSE, lastScroll |-> -1]]

\* LoadGuide as it would be if it marked, rendered and scheduled before it
\* looked at what the lookup returned
LoadGuideUnchecked(id) ==
  LET found == getGuideById(guides, id)
  IN  /\ url = GuideRoute
      /\ timers < MaxTimers
      /\ guide' = found
      /\ guides' = markAsViewed(guides, id)
      /\ received' = [o \in DOMAIN received |-> guides']
      /\ renderedContent' =
           IF found # undefinedGuide THEN renderMarkdown(found.content)
           ELSE <<>>
      /\ wrappers' = Mounted(renderedContent')
      /\ timers' = timers + 1
      /\ IF found # undefinedGuide THEN UNCHANGED url
         ELSE navigate(DashboardRoute)
      /\ Call("loadGuide", id, undefined)

\* the subscriber of ngOnInit: the route of the viewer delivers the parameter
\* id and loadGuide(id) runs; the viewer lives while its route is the location.
\* The view then shows the new renderedContent; when the lookup fails the
\* router leaves the viewer, whose elements leave the document
LoadGuide(id) ==
  LET found == getGuideById(guides, id)
  IN  /\ url = GuideRoute
      /\ guide' = found
      /\ IF found # undefinedGuide
         THEN /\ timers < MaxTimers
              /\ guides' = markAsViewed(guides, id)
              /\ received' = [o \in DOMAIN received |-> guides']
              /\ renderedContent' = renderMarkdown(found.content)
              /\ wrappers' = Mounted(renderedContent')
              /\ timers' = timers + 1
              /\ UNCHANGED url
         ELSE /\ navigate(DashboardRoute)
              /\ wrappers' = <<>>
              /\ UNCHANGED <<catalogVars, renderedContent, timers>>
      /\ Call("loadGuide", id, undefined)

\* the heights a scan can read from an element
Heights == {10, 20}

\* setupCodeBlockScrollIndicators over the elements ws, sizes[k] being the
\* scrollHeight and clientHeight read from element k
setupCodeBlockScrollIndicators(ws, sizes) ==
  [k \in DOMAIN ws |->
     LET isScrollable == sizes[k].scrollHeight > sizes[k].clientHeight
     IN  IF isScrollable
         THEN [ws[k] EXCEPT !.hasScroll = TRUE, !.listeners = @ + 1,
                            !.overflowed = TRUE]
         ELSE ws[k]]

\* a pending callback runs setupCodeBlockScrollIndicators on the
\* .code-wrapper elements of the document
ScanFires ==
  /\ timers > 0
  /\ timers' = timers - 1
  /\ \E sizes \in [DOMAIN wrappers ->
                     [scrollHeight : Heights, clientHeight : Heights]] :
       wrappers' = setupCodeBlockScrollIndicators(wrappers, sizes)
  /\ Call("setupCodeBlockScrollIndicators", undefined, undefined)
  /\ UNCHANGED <<catalogVars, guide, renderedContent, url, vpc>>

Next ==
  \/ ServiceNext /\ UNCHANGED <<viewerVars, dashboardVars, renderVars, highlightVars>>
  \/ \E id \in Ids : LoadGuide(id) /\ UNCHANGED <<vpc, dashboardVars, renderVars, highlightVars>>
  \/ ScanFires /\ UNCHANGED <<dashboardVars, renderVars, highlightVars>>

Spec == Init /\ [][Next]_vars

(***************************************************************************)
(* SpecViewer: the guide viewer, its timers and the code-wrapper elements  *)
(***************************************************************************)
ViewerSpecInit ==
  /\ guides = <<GuideB, GuideE>>
  /\ received = <<>>
  /\ ViewerInit
  /\ DashboardInit
  /\ CallInit
  /\ RenderIdle
  /\ HighlightIdle

\* route.paramMap delivers the parameter id to the subscriber of ngOnInit:
\* at once when ngOnInit subscribes, and then whenever the parameter changes
ParamMapEmits(id) ==
  /\ LoadGuide(id)
  /\ vpc' = IF vpc = "constructed" THEN "ngOnInit" ELSE vpc

\* ngAfterViewInit follows ngOnInit, also when loadGuide has asked the router
\* to leave
NgAfterViewInit ==
  /\ vpc = "ngOnInit"
  /\ vpc' = "ngAfterViewInit"
  /\ timers' = timers + 1
  /\ Call("ngAfterViewInit", undefined, undefined)
  /\ UNCHANGED <<catalogVars, guide, renderedContent, url, wrappers>>

\* the scroll listener as it would be without its else branch
ScrollEventNeverRemoves(k, scrollHeight, scrollTop, clientHeight) ==
  LET isAtBottom == scrollHeight - scrollTop <= clientHeight + 5
  IN  /\ k \in DOMAIN wrappers
      /\ scrollTop <= scrollHeight - clientHeight
      /\ wrappers' =
           [wrappers EXCEPT ![k] =
              [@ EXCEPT !.scrolledBottom =
                          IF wrappers[k].listeners > 0 /\ isAtBottom
                          THEN TRUE ELSE @,
                        !.lastScroll =
                          scrollHeight - scrollTop - clientHeight]]
      /\ Call("scroll", k, undefined)
      /\ UNCHANGED <<catalogVars, guide, renderedContent, url, timers, vpc>>

\* the listeners of element k run on a scroll event that finds scrollHeight,
\* scrollTop and clientHeight; every listener of the element evaluates the
\* same condition
ScrollEvent(k, scrollHeight, scrollTop, clientHeight) ==
  LET isAtBottom == scrollHeight - scrollTop <= clientHeight + 5
  IN  /\ k \in DOMAIN wrappers
      /\ scrollTop <= scrollHeight - clientHeight
      /\ wrappers' =
           [wrappers EXCEPT ![k] =
              [@ EXCEPT !.scrolledBottom =
                          IF wrappers[k].listeners > 0 THEN isAtBottom ELSE @,
                        !.lastScroll =
                          scrollHeight - scrollTop - clientHeight]]
      /\ Call("scroll", k, undefined)
      /\ UNCHANGED <<catalogVars, guide, renderedContent, url, timers, vpc>>

\* goBack as it would be if leaving the viewer cleared its pending callbacks
GoBackCancels ==
  /\ url = GuideRoute
  /\ navigate(DashboardRoute)
  /\ wrappers' = <<>>
  /\ timers' = 0
  /\ Call("goBack", undefined, undefined)
  /\ UNCHANGED <<catalogVars, guide, renderedContent, vpc>>

\* goBack and goHome: the router leaves the viewer, whose elements leave the
\* document; nothing clears the pending callbacks
GoBack ==
  /\ url = GuideRoute
  /\ navigate(DashboardRoute)
  /\ wrappers' = <<>>
  /\ Call("goBack", undefined, undefined)
  /\ UNCHANGED <<catalogVars, guide, renderedContent, timers, vpc>>

GoHome ==
  /\ url = GuideRoute
  /\ navigate(<<"/">>)
  /\ wrappers' = <<>>
  /\ Call("goHome", undefined, undefined)
  /\ UNCHANGED <<catalogVars, guide, renderedContent, timers, vpc>>

\* the scan as a step of the viewer
ViewerScan ==
  ScanFires /\ UNCHANGED <<dashboardVars, renderVars, highlightVars>>

ViewerNext ==
  \/ /\ \/ \E id \in {"docker-intro", "backend-entites", "no-such-guide"} :
             ParamMapEmits(id)
        \/ NgAfterViewInit
        \/ \E k \in 1..2, t \in {4, 5} : ScrollEvent(k, 20, t, 10)
        \/ GoBack
        \/ GoHome
     /\ UNCHANGED <<dashboardVars, renderVars, highlightVars>>
  \/ ViewerScan

\* a callback given to setTimeout runs once its delay is over
SpecViewer == ViewerSpecInit /\ [][ViewerNext]_vars /\ WF_vars(ViewerScan)

(***************************************************************************)
(* SpecDashboard: the guide service and the dashboard                      *)
(***************************************************************************)
DashboardSpecInit ==
  /\ guides \in DashboardCatalogs
  /\ received = <<>>
  /\ ViewerInit
  /\ DashboardInit
  /\ CallInit
  /\ RenderIdle
  /\ HighlightIdle

\* ngOnInit as it would be if it selected no category
NgOnInitSelectsNothing(narrow) ==
  /\ dpc = "constructed"
  /\ dpc' = "initialized"
  /\ isSidebarOpen' = IF narrow THEN FALSE ELSE isSidebarOpen
  /\ Call("ngOnInit", undefined, undefined)
  /\ UNCHANGED <<catalogVars, selectedCategory>>

\* narrow: window.innerWidth <= 768
NgOnInit(narrow) ==
  /\ dpc = "constructed"
  /\ dpc' = "initialized"
  /\ selectedCategory' = BACKEND
  /\ isSidebarOpen' = IF narrow THEN FALSE ELSE isSidebarOpen
  /\ Call("ngOnInit", undefined, undefined)
  /\ UNCHANGED catalogVars

SelectCategory(category, narrow) ==
  /\ selectedCategory' = category
  /\ isSidebarOpen' = IF narrow THEN FALSE ELSE isSidebarOpen
  /\ Call("selectCategory", category, undefined)
  /\ UNCHANGED <<catalogVars, dpc>>

ToggleSidebar ==
  /\ isSidebarOpen' = ~isSidebarOpen
  /\ Call("toggleSidebar", undefined, undefined)
  /\ UNCHANGED <<catalogVars, selectedCategory, dpc>>

\* the dashboard's getGuidesByCategory as it would be if it sorted the list
\* it is given, which is the array the service and its observers hold
DashboardGetGuidesSortsInPlace ==
  /\ guides' = SortByOrder(guides)
  /\ received' = [o \in DOMAIN received |-> guides']
  /\ Call("dashboard.getGuidesByCategory", selectedCategory,
          DashboardGuides(selectedCategory, guides'))
  /\ UNCHANGED dashboardVars

\* the template calls getGuidesByCategory with the list guides$ last emitted
DashboardGetGuides ==
  /\ Call("dashboard.getGuidesByCategory", selectedCategory,
          DashboardGuides(selectedCategory, guides))
  /\ UNCHANGED <<catalogVars, dashboardVars>>

DashboardNext ==
  \/ /\ \/ \E id \in DashboardIds : MarkAsViewed(id)
        \/ \E c \in Categories : GetGuidesByCategory(c)
     /\ UNCHANGED <<viewerVars, dashboardVars, renderVars, highlightVars>>
  \/ /\ \/ \E narrow \in BOOLEAN : NgOnInit(narrow)
        \/ \E c \in Categories, narrow \in BOOLEAN : SelectCategory(c, narrow)
        \/ ToggleSidebar
        \/ DashboardGetGuides
     /\ UNCHANGED <<viewerVars, renderVars, highlightVars>>

SpecDashboard == DashboardSpecInit /\ [][DashboardNext]_vars

(***************************************************************************)
(* SpecCatalog: the guide service, the observers of guides$ and the reads  *)
(* of the dashboard                                                        *)
(***************************************************************************)
CatalogNext ==
  \/ /\ \/ \E id \in Ids : MarkAsViewed(id)
        \/ \E id \in Ids : GetGuideById(id)
        \/ \E c \in Categories : GetGuidesByCategory(c)
        \/ \E q \in Queries : SearchGuides(q)
        \/ GetGuides
        \/ Subscribe
     /\ UNCHANGED <<viewerVars, dashboardVars, renderVars, highlightVars>>
  \/ /\ \/ \E narrow \in BOOLEAN : NgOnInit(narrow)
        \/ DashboardGetGuides
     /\ UNCHANGED <<viewerVars, renderVars, highlightVars>>

SpecCatalog == Init /\ [][CatalogNext]_vars

(***************************************************************************)
(* SpecLiteral: the guide service on the literal list of initializeGuides  *)
(***************************************************************************)
\* the 25 records of the literal list, in its order, each with its id, its
\* category and its order; the titles, tags and contents are left out (the
\* operations of this specification read the id alone)
LiteralGuides ==
  LET G(id, category, order) == Guide(id, <<>>, category, order, <<>>, <<>>)
  IN  <<
       G("backend-entites", BACKEND, 1),
       G("backend-repositories", BACKEND, 2),
       G("architecture-uml", ARCHITECTURE, 1),
       G("env-git-basics", "Environnement de développement", 1),
       G("env-spring-boot-setup", "Environnement de développement", 2),
       G("env-angular-setup", "Environnement de développement", 3),
       G("env-ide-setup", "Environnement de développement", 4),
       G("frontend-components", "Frontend Angular", 1),
       G("frontend-services", "Frontend Angular", 2),
       G("tests-backend-junit", "Tests", 1),
       G("tests-frontend-jasmine", "Tests", 2),
       G("tests-e2e-cypress", "Tests", 3),
       G("sonarqube-intro", "SonarQube", 1),
       G("docker-intro", "Docker", 1),
       G("docker-compose", "Docker", 2),
       G("docker-production", "Docker", 3),
       G("cicd-intro", "CI/CD", 1),
       G("cicd-github-actions", "CI/CD", 2),
       G("cicd-gitlab-jenkins", "CI/CD", 3),
       G("deployment-vps", "Déploiement", 1),
       G("deployment-cloud", "Déploiement", 2),
       G("deployment-strategies", "Déploiement", 3),
       G("monitoring-prometheus-grafana", "Monitoring & Maintenance", 1),
       G("monitoring-logging", "Monitoring & Maintenance", 2),
       G("monitoring-performance", "Monitoring & Maintenance", 3) >>

\* the ids the operations are called with: those of the first records of five
\* categories, and one that no record has
LiteralCallIds ==
  {"backend-entites", "architecture-uml", "env-git-basics",
   "frontend-components", "monitoring-performance", "no-such-guide"}

LiteralInit ==
  /\ guides = LiteralGuides
  /\ received = <<>>
  /\ ViewerInit
  /\ DashboardInit
  /\ CallInit
  /\ RenderIdle
  /\ HighlightIdle

LiteralNext ==
  /\ \/ \E id \in LiteralCallIds : MarkAsViewed(id)
     \/ \E id \in LiteralCallIds : GetGuideById(id)
  /\ UNCHANGED <<viewerVars, dashboardVars, renderVars, highlightVars>>

SpecLiteral == LiteralInit /\ [][LiteralNext]_vars

(***************************************************************************)
(* SpecRender: one call of renderMarkdown, pass by pass                    *)
(***************************************************************************)
RenderInit ==
  /\ markdown \in Markdowns
  /\ html = markdown
  /\ pc = 1
  /\ HighlightIdle
  /\ CatalogIdle

\* html = html.replace(...): the pass pc of renderMarkdown
RenderStep ==
  /\ pc \in 1..NumPasses
  /\ LET r == RenderPass(pc, html)
     IN  /\ html' = r
         /\ pc' = IF IsString(r) THEN pc + 1 ELSE 0
  /\ UNCHANGED <<markdown, highlightVars, catalogVars, viewerVars,
                 dashboardVars, callVars>>

RenderNext == RenderStep

SpecRender == RenderInit /\ [][RenderNext]_vars

(***************************************************************************)
(* SpecHighlight: one call of highlightCode                                *)
(***************************************************************************)
HighlightInit ==
  /\ code \in Codes
  /\ lang \in Langs
  /\ highlighted = <<>>
  /\ hpc = "call"
  /\ RenderIdle
  /\ CatalogIdle

Highlight ==
  /\ hpc = "call"
  /\ highlighted' = highlightCode(code, lang)
  /\ hpc' = "return"
  /\ UNCHANGED <<code, lang, renderVars, catalogVars, viewerVars,
                 dashboardVars, callVars>>

HighlightNext == Highlight

SpecHighlight == HighlightInit /\ [][HighlightNext]_vars

(***************************************************************************)
(* Properties                                                              *)
(***************************************************************************)
\* the positions of the record of id in the list gs
Positions(gs, id) == {i \in 1..Len(gs) : gs[i].id = id}

\* sub occurs in s: s holds Len(sub) consecutive places equal to sub
Occurs(s, sub) ==
  \E i \in 0..(Len(s) - Len(sub)) : SubSeq(s, i + 1, i + Len(sub)) = sub

\* res holds the records of gs that satisfy Keep(_), each once
HoldsExactly(res, gs, Keep(_)) ==
  /\ \A k \in 1..Len(res) : Keep(res[k]) /\ \E i \in 1..Len(gs) : gs[i] = res[k]
  /\ \A i \in 1..Len(gs) : Keep(gs[i]) => \E k \in 1..Len(res) : res[k] = gs[i]
  /\ \A k, l \in 1..Len(res) : k # l => res[k] # res[l]

\* the place of the record g in gs
PlaceIn(gs, g) == CHOOSE i \in 1..Len(gs) : gs[i] = g

\* C1: for every input string renderMarkdown runs all its passes and returns
\* a string: no pass throws (pc is never 0 and html is always a string of
\* characters), and every step of a call is one pass that hands a string to
\* the next pass, so the call returns after its NumPasses passes.
C1_RenderMarkdownReturns ==
  /\ [](pc \in 1..(NumPasses + 1) /\ IsString(html))
  /\ [][(pc \in 1..NumPasses) /\ (pc' = pc + 1) /\ IsString(html')]_vars

\* C1 witness: the call has returned for a fence without a language tag,
\* whose callback ran with lang undefined.
C1_FenceWithoutLangReturned ==
  /\ markdown = fence \o <<"\n">> \o fence
  /\ pc = NumPasses + 1
  /\ IsString(html)
  /\ Occurs(html, <<"<", "c", "o", "d", "e", " ", "c", "l", "a", "s", "s",
                  "=", "\"", "l", "a", "n", "g", "u", "a", "g", "e", "-", "t",
                  "e", "x", "t", "\"", ">">>)

\* C2: for the fenced java input renderMarkdown returns a code-wrapper div
\* holding code class language-java, in which public and class are each
\* wrapped in a keyword span and Foo in a class span.
C2_JavaFenceSpans ==
  (markdown = JavaFooMarkdown /\ pc = NumPasses + 1) =>
    /\ Occurs(html, <<"<", "d", "i", "v", " ", "c", "l", "a", "s", "s", "=",
                  "\"", "c", "o", "d", "e", "-", "w", "r", "a", "p", "p", "e",
                  "r", "\"", ">">>)
    /\ Occurs(html, <<"<", "c", "o", "d", "e", " ", "c", "l", "a", "s", "s",
                  "=", "\"", "l", "a", "n", "g", "u", "a", "g", "e", "-", "j",
                  "a", "v", "a", "\"", ">">>)
    /\ Occurs(html, <<"<", "s", "p", "a", "n", " ", "c", "l", "a", "s", "s",
                  "=", "\"", "k", "e", "y", "w", "o", "r", "d", "\"", ">",
                  "p", "u", "b", "l", "i", "c", "<", "/", "s", "p", "a", "n",
                  ">">>)
    /\ Occurs(html, <<"<", "s", "p", "a", "n", " ", "c", "l", "a", "s", "s",
                  "=", "\"", "k", "e", "y", "w", "o", "r", "d", "\"", ">",
                  "c", "l", "a", "s", "s", "<", "/", "s", "p", "a", "n", ">">>)
    /\ Occurs(html, <<"<", "s", "p", "a", "n", " ", "c", "l", "a", "s", "s",
                  "=", "\"", "c", "l", "a", "s", "s", "\"", ">", "F", "o",
                  "o", "<", "/", "s", "p", "a", "n", ">">>)

\* an intact entity of escapeHtml starts at place i of s
EntityAt(s, i) ==
  \/ IsAt(s, i, <<"&", "l", "t", ";">>)
  \/ IsAt(s, i, <<"&", "g", "t", ";">>)
  \/ IsAt(s, i, <<"&", "a", "m", "p", ";">>)
  \/ IsAt(s, i, <<"&", "n", "b", "s", "p", ";">>)

\* an opening or a closing span tag starts at place i of s
SpanTagAt(s, i) ==
  \/ IsAt(s, i, <<"<", "s", "p", "a", "n", " ">>)
  \/ IsAt(s, i, <<"<", "/", "s", "p", "a", "n", ">">>)

\* C3: in what highlightCode returns, for every language branch, every
\* ampersand starts an intact entity (no pass breaks or un-escapes one) and
\* every literal less-than sign starts a span tag of the highlighter.
C3_EntitiesIntact ==
  hpc = "return" =>
    \A i \in 1..Len(highlighted) :
      /\ highlighted[i] = "&" => EntityAt(highlighted, i)
      /\ highlighted[i] = "<" => SpanTagAt(highlighted, i)

\* C4: when the language tag is absent or is not exactly one of the nine
\* tags, highlightCode returns exactly the escaped code, with no span: no
\* < at all, each <, > and & of the code replaced by its entity and the other
\* characters kept.
C4_OtherLangEscapesOnly ==
  (hpc = "return"
     /\ lang \notin {sJava, sJavascript, sTypescript, sJs, sTs, sCss, sScss,
                     sHtml, sXml}) =>
    /\ highlighted = escapeHtml(code)
    /\ \A i \in 1..Len(highlighted) : highlighted[i] \notin {"<", ">"}
    /\ Len(highlighted) =
         Len(code) + 3 * Cardinality({i \in 1..Len(code) : code[i] \in {"<", ">"}})
           + 4 * Cardinality({i \in 1..Len(code) : code[i] = "&"})
    /\ ~Occurs(highlighted, <<"<", "s", "p", "a", "n">>)

\* C4 witness: <script> with no language has come back as &lt;script&gt;
C4_ScriptEscaped ==
  /\ hpc = "return"
  /\ lang = undefined
  /\ code = <<"<", "s", "c", "r", "i", "p", "t", ">">>
  /\ highlighted =
       <<"&", "l", "t", ";", "s", "c", "r", "i", "p", "t", "&", "g", "t", ";">>

\* C5: a markAsViewed(id) step leaves the record of that id with isViewed
\* true and changes nothing else: the other fields of that record, every
\* other record, the ids and the order of the records stay; when no record
\* has the id the catalog stays as it was; the call returns (no error).
C5_MarkAsViewedFrame ==
  [][op'.name = "markAsViewed" =>
       /\ Len(guides') = Len(guides)
       /\ \A i \in 1..Len(guides) :
            IF guides[i].id = op'.arg
            THEN /\ guides'[i].isViewed = TRUE
                 /\ [guides'[i] EXCEPT !.isViewed = guides[i].isViewed] = guides[i]
            ELSE guides'[i] = guides[i]
       /\ Positions(guides, op'.arg) = {} => guides' = guides
       /\ result' = undefined]_vars

\* C5 witness: markAsViewed has marked one record of a catalog whose other
\* records are not viewed.
C5_OneMarked ==
  /\ op.name = "markAsViewed"
  /\ Len(guides) = 3
  /\ \A i \in 1..Len(guides) : guides[i].isViewed <=> guides[i].id = op.arg
  /\ Positions(guides, op.arg) # {}

\* C6: markAsViewed is idempotent: a markAsViewed(id) step that follows a
\* markAsViewed(id) step of the same id leaves the catalog as the first one
\* left it.
C6_MarkAsViewedIdempotent ==
  [][(op.name = "markAsViewed" /\ op' = op) => guides' = guides]_vars

\* C6 witness: markAsViewed has been called on a record that was already
\* viewed when the viewer loaded it.
C6_MarkedAgain ==
  /\ op.name = "markAsViewed"
  /\ guide # undefinedGuide
  /\ guide.id = op.arg
  /\ guide.isViewed
  /\ \E i \in Positions(guides, op.arg) : guides[i].isViewed

\* C7: isViewed is monotonic: every guide starts not viewed, and a guide
\* viewed in the catalog is still viewed after every step of markAsViewed,
\* loadGuide, getGuideById, getGuidesByCategory and searchGuides.
C7_IsViewedMonotonic ==
  /\ \A i \in 1..Len(guides) : ~guides[i].isViewed
  /\ [][\A i \in 1..Len(guides) :
          guides[i].isViewed =>
            \E j \in Positions(guides', guides[i].id) : guides'[j].isViewed]_vars

\* C7 witness: a guide viewed earlier is still viewed after the viewer has
\* loaded another one.
C7_StillViewed ==
  /\ op.name = "loadGuide"
  /\ guide # undefinedGuide
  /\ \E i \in 1..Len(guides) : guides[i].isViewed /\ guides[i].id # op.arg
  /\ \E i \in Positions(guides, op.arg) : guides[i].isViewed

\* what renderMarkdown must give for the content of the record of id
RenderingOf(id) ==
  CASE id = "backend-repositories" ->
         <<"<", "p", ">", "<", "s", "t", "r", "o", "n", "g", ">",
         "C", "r", "u", "d", "<", "/", "s", "t", "r", "o", "n",
         "g", ">", "<", "/", "p", ">">>
    [] id = "backend-entites" ->
         <<"<", "h", "1", ">", "J", "p", "a", "<", "/", "h", "1",
         ">">>
    [] id = "architecture-uml" ->
         <<"<", "u", "l", ">", "<", "l", "i", ">", "U", "m", "l",
         "<", "/", "l", "i", ">", "<", "/", "u", "l", ">", "<",
         "p", ">", "<", "c", "o", "d", "e", ">", "a", "<", "/",
         "c", "o", "d", "e", ">", "<", "/", "p", ">">>

\* C8: a loadGuide(id) step with an id no record has navigates to /dashboard
\* and leaves the catalog, renderedContent and the pending scans as they
\* were (no error: the call returns); with a known id it marks that guide
\* viewed, sets renderedContent to the rendering of its content and leaves
\* the location as it was.
C8_LoadGuide ==
  [][op'.name = "loadGuide" =>
       /\ result' = undefined
       /\ IF Positions(guides, op'.arg) = {}
          THEN /\ url' = DashboardRoute
               /\ guides' = guides
               /\ renderedContent' = renderedContent
               /\ timers' = timers
          ELSE /\ \A i \in Positions(guides, op'.arg) :
                    /\ guides'[i].isViewed
                    /\ renderedContent' = RenderingOf(guides[i].id)
               /\ url' = url
               /\ url' = GuideRoute]_vars

\* C8 witness: after a guide was loaded and rendered, loadGuide with an
\* unknown id has navigated to /dashboard, the rendering still in place.
C8_UnknownIdRedirected ==
  /\ op = [name |-> "loadGuide", arg |-> "no-such-guide"]
  /\ url = DashboardRoute
  /\ guide = undefinedGuide
  /\ renderedContent = RenderingOf("backend-entites")
  /\ \E i \in 1..Len(guides) : guides[i].isViewed

\* res is what filtering gs on category and sorting by order must give
SortedCategory(res, gs, category) ==
  /\ HoldsExactly(res, gs, LAMBDA g : g.category = category)
  /\ \A k, l \in 1..Len(res) :
       k < l =>
         \/ res[k].order < res[l].order
         \/ /\ res[k].order = res[l].order
            /\ PlaceIn(gs, res[k]) < PlaceIn(gs, res[l])

\* C9: getGuidesByCategory(category) of the service returns exactly the
\* records of that category, by ascending order, records of equal order in
\* catalog order; getGuidesByCategory of the dashboard returns the same for
\* its selected category.
C9_GetGuidesByCategory ==
  /\ op.name = "getGuidesByCategory" => SortedCategory(result, guides, op.arg)
  /\ (op.name = "dashboard.getGuidesByCategory" /\ op.arg # null) =>
       /\ op.arg = selectedCategory
       /\ SortedCategory(result, guides, selectedCategory)

\* C9 witness: the dashboard has listed its category out of a catalog that
\* holds another category, a higher order first and two equal orders.
C9_DashboardSorted ==
  /\ op.name = "dashboard.getGuidesByCategory"
  /\ selectedCategory = BACKEND
  /\ Len(guides) = 4
  /\ guides[1].id = "backend-repositories"
  /\ guides[2].id = "architecture-uml"
  /\ guides[3].id = "backend-dto"
  /\ Len(result) = 3
  /\ result[1].id = "backend-dto"
  /\ result[2].id = "backend-entites"
  /\ result[3].id = "backend-repositories"

\* the lower-cased query occurs in the lower-cased title, content or in a
\* lower-cased tag of g
QueryHits(g, query) ==
  \/ Occurs(toLowerCase(g.title), toLowerCase(query))
  \/ Occurs(toLowerCase(g.content), toLowerCase(query))
  \/ \E t \in 1..Len(g.tags) : Occurs(toLowerCase(g.tags[t]), toLowerCase(query))

\* C10: searchGuides(query) returns exactly the records whose lower-cased
\* title, content or one lower-cased tag holds the lower-cased query, in
\* catalog order; a query no record matches returns the empty list.
C10_SearchGuides ==
  op.name = "searchGuides" =>
    /\ HoldsExactly(result, guides, LAMBDA g : QueryHits(g, op.arg))
    /\ \A k, l \in 1..Len(result) :
         k < l => PlaceIn(guides, result[k]) < PlaceIn(guides, result[l])
    /\ (\A i \in 1..Len(guides) : ~QueryHits(guides[i], op.arg)) => result = <<>>

\* C10 witness: the query API has found, by its tag Api alone, one record
\* out of three.
C10_FoundByTag ==
  /\ op = [name |-> "searchGuides", arg |-> <<"A", "P", "I">>]
  /\ Len(guides) = 3
  /\ Len(result) = 1
  /\ result[1].id = "backend-repositories"

\* C11: in every catalog state reached from the literal list by markAsViewed
\* calls no two records share an id, and what getGuideById(id) returns is the
\* one record of that id, or undefined when there is none.
C11_IdsUnique ==
  /\ \A i, j \in 1..Len(guides) : guides[i].id = guides[j].id => i = j
  /\ op.name = "getGuideById" =>
       /\ Cardinality(Positions(guides, op.arg)) <= 1
       /\ \A i \in Positions(guides, op.arg) : result = guides[i]
       /\ Positions(guides, op.arg) = {} => result = undefinedGuide

\* C11 witness: after markAsViewed calls on the literal list, getGuideById
\* has returned the one record of its id, viewed.
C11_LookupAfterMarks ==
  /\ Len(guides) = 25
  /\ op = [name |-> "getGuideById", arg |-> "monitoring-performance"]
  /\ result = guides[25]
  /\ result.isViewed
  /\ guides[1].isViewed

\* t is plain text: letters, digits and spaces only
PlainText(t) == \A k \in 1..Len(t) : t[k] \in Lower \cup Upper \cup Digit \cup {" "}

\* C12: for a document that is the single line # t, ## t or ### t with t of
\* plain text, renderMarkdown returns exactly <h1>t</h1>, <h2>t</h2> or
\* <h3>t</h3>, with no <p> or </p> around it.
C12_SingleHeader ==
  pc = NumPasses + 1 =>
    \A n \in 1..3 :
      LET t == SubSeq(markdown, n + 2, Len(markdown))
          d == <<"1", "2", "3">>[n]
      IN  (/\ Len(markdown) >= n + 1
           /\ SubSeq(markdown, 1, n + 1) = [k \in 1..(n + 1) |-> IF k <= n THEN "#" ELSE " "]
           /\ PlainText(t)) =>
            html = <<"<", "h", d, ">">> \o t \o <<"<", "/", "h", d, ">">>

\* C12 witness: ## a has been rendered as <h2>a</h2>
C12_SecondLevelHeader ==
  /\ pc = NumPasses + 1
  /\ markdown = <<"#", "#", " ", "a">>
  /\ html = <<"<", "h", "2", ">", "a", "<", "/", "h", "2", ">">>

\* no character of t is in C
NoneOf(t, C) == \A k \in 1..Len(t) : t[k] \notin C

\* html holds <strong>b</strong>, later <em>i</em>, and no <em> before it
EmphasisRendered(b, i) ==
  LET strong == <<"<", "s", "t", "r", "o", "n", "g", ">">> \o b
                  \o <<"<", "/", "s", "t", "r", "o", "n", "g", ">">>
      em == <<"<", "e", "m", ">">> \o i \o <<"<", "/", "e", "m", ">">>
  IN  \E p \in 1..Len(html) :
        /\ IsAt(html, p, strong)
        /\ \E q \in (p + Len(strong))..Len(html) :
             /\ IsAt(html, q, em)
             /\ \A r \in 1..(q - 1) : ~IsAt(html, r, <<"<", "e", "m", ">">>)

\* every document **b** and *i* whose b and i hold no character of C has been
\* rendered with <strong>b</strong> followed by <em>i</em>
EmphasisHolds(C) ==
  pc = NumPasses + 1 =>
    \A k \in 2..Len(markdown) :
      LET b == Slice(markdown, 3, k)
          i == Slice(markdown, k + 9, Len(markdown) - 1)
      IN  (/\ markdown = <<"*", "*">> \o b
                           \o <<"*", "*", " ", "a", "n", "d", " ", "*">> \o i
                           \o <<"*">>
           /\ NoneOf(b, C) /\ NoneOf(i, C)) => EmphasisRendered(b, i)

\* C13 as stated: for b and i with no asterisk, backtick or newline,
\* renderMarkdown of **b** and *i* holds <strong>b</strong> followed later by
\* <em>i</em>, and the asterisks of the bold span give no <em>.
C13_BoldThenItalic == EmphasisHolds({"*", BT, "\n"})

\* C13 amended: the same for b and i that hold no asterisk, backtick,
\* newline, [ or <, which the link pass and the clean-up passes rewrite.
C13_BoldThenItalicPlain == EmphasisHolds({"*", BT, "\n", "[", "<"})

\* C13 witness: **b c** and *a* has been rendered
C13_EmphasisRendered ==
  /\ pc = NumPasses + 1
  /\ markdown = <<"*", "*", "b", " ", "c", "*", "*", " ", "a", "n", "d", " ", "*", "a", "*">>
  /\ html = <<"<", "p", ">", "<", "s", "t", "r", "o", "n", "g", ">", "b", " ", "c", "<", "/", "s", "t", "r", "o", "n", "g",
            ">", " ", "a", "n", "d", " ", "<", "e", "m", ">", "a", "<", "/", "e", "m", ">", "<", "/", "p", ">">>

\* the anchor <a href="url" target="_blank">label</a>
Anchor(label, href) ==
  <<"<", "a", " ", "h", "r", "e", "f", "=", "\"">> \o href
    \o <<"\"", " ", "t", "a", "r", "g", "e", "t", "=", "\"", "_", "b", "l", "a",
         "n", "k", "\"", ">">>
    \o label \o <<"<", "/", "a", ">">>

\* every document [label](url) whose label and url satisfy Ok(_, _) has been
\* rendered with its anchor
AnchorHolds(Ok(_, _)) ==
  pc = NumPasses + 1 =>
    \A k \in 1..Len(markdown) :
      LET label == Slice(markdown, 2, k)
          href == Slice(markdown, k + 3, Len(markdown) - 1)
      IN  (/\ markdown = <<"[">> \o label \o <<"]", "(">> \o href \o <<")">>
           /\ Ok(label, href)) => Occurs(html, Anchor(label, href))

\* C14 as stated: for a label with no ] and a url with no ), renderMarkdown
\* of [label](url) holds the anchor <a href="url" target="_blank">label</a>.
C14_LinkAnchor ==
  AnchorHolds(LAMBDA label, href : NoneOf(label, {"]"}) /\ NoneOf(href, {")"}))

\* C14 amended: the same for a label and a url that are not empty and hold
\* no asterisk, backtick, newline or <, the label no ] and the url no ).
C14_LinkAnchorPlain ==
  AnchorHolds(LAMBDA label, href :
                /\ label # <<>> /\ href # <<>>
                /\ NoneOf(label, {"]", "*", BT, "\n", "<"})
                /\ NoneOf(href, {")", "*", BT, "\n", "<"}))

\* C14 witness: [a b](http://e.c) has been rendered as its anchor in a
\* paragraph
C14_AnchorRendered ==
  /\ pc = NumPasses + 1
  /\ markdown = <<"[", "a", " ", "b", "]", "(",
                "h", "t", "t", "p", ":", "/", "/", "e", ".", "c", ")">>
  /\ html = <<"<", "p", ">">>
              \o Anchor(<<"a", " ", "b">>,
                        <<"h", "t", "t", "p", ":", "/", "/", "e", ".", "c">>)
              \o <<"<", "/", "p", ">">>


\* the places of s where lit stands
PlacesOf(s, lit) == {i \in 1..Len(s) : IsAt(s, i, lit)}

UlOpen == <<"<", "u", "l", ">">>

UlClose == <<"<", "/", "u", "l", ">">>

WrapperOpen ==
  <<"<", "d", "i", "v", " ", "c", "l", "a", "s", "s", "=", "\"", "c", "o", "d",
    "e", "-", "w", "r", "a", "p", "p", "e", "r", "\"", ">">>

CodeOpen == <<"<", "c", "o", "d", "e", ">">>

CodeClose == <<"<", "/", "c", "o", "d", "e", ">">>

DivClose == <<"<", "/", "d", "i", "v", ">">>

\* C16 as stated: after the inline-code pass (guide-viewer.component.ts line
\* 116) every code-wrapper block, from its opening div to the next </div>,
\* holds no plain <code> tag and no </code> but the one the fenced-code pass
\* wrote: the inline-code pass has inserted nothing inside or across it
C16_FencedCodeNotRematched ==
  pc >= 8 =>
    \A w \in PlacesOf(html, WrapperOpen) :
      LET d == FindLit(html, w, DivClose)
      IN  d # 0 =>
            /\ PlacesOf(html, CodeOpen) \cap w..d = {}
            /\ Cardinality(PlacesOf(html, CodeClose) \cap w..d) = 1

\* C17 as stated: when the fenced-code pass has matched no fence (the text
\* that reaches the inline-code pass, guide-viewer.component.ts line 116,
\* holds a triple-backtick marker, no backtick before it and no
\* code-wrapper block), the
\* inline-code pass leaves the text from the first marker to the end as
\* it is: the fence backticks stay and nothing after them becomes <code>
C17_UnmatchedFenceKept ==
  [][(/\ pc = 7
      /\ PlacesOf(html, fence) # {}
      /\ PlacesOf(html, WrapperOpen) = {}
      /\ \A k \in 1..(FindLit(html, 1, fence) - 1) : html[k] # BT)
       => LET f == FindLit(html, 1, fence)
              n == Len(html) - f + 1
          IN  /\ Len(html') >= n
              /\ Slice(html', Len(html') - n + 1, Len(html'))
                   = Slice(html, f, Len(html))]_vars

\* C18 as stated: in the returned HTML no <p> stands right before <h1>..<h6>,
\* <ul>, the code-wrapper div or <hr>, and no </p> right after </h1>..</h6>,
\* </ul>, </div> or <hr>
C18_NoParagraphAroundBlocks ==
  pc = NumPasses + 1 =>
    LET levels == {"1", "2", "3", "4", "5", "6"}
        openers == {Tag(<<"h", n>>) : n \in levels}
                     \cup {UlOpen, WrapperOpen, Tag(<<"h", "r">>)}
        closers == {EndTag(<<"h", n>>) : n \in levels}
                     \cup {UlClose, DivClose, Tag(<<"h", "r">>)}
    IN  /\ \A i \in PlacesOf(html, pOpen) :
              \A b \in openers : ~IsAt(html, i + Len(pOpen), b)
        /\ \A b \in closers : \A i \in PlacesOf(html, b) :
              ~IsAt(html, i + Len(b), pClose)

\* C19 as stated: for html or xml, each tag name of the code that follows a
\* < stands in the result as &lt;<span class="keyword">name</span>, and
\* the span tags that a pass has inserted are as written in what is
\* returned: every < of the result starts an opening tag of a keyword,
\* property or string span, or a closing </span>
C19_MarkupSpansIntact ==
  (hpc = "return" /\ lang \in {sHtml, sXml}) =>
    /\ \A i \in 1..Len(code) :
          LET b == IF IsAt(code, i + 1, <<"/">>) THEN i + 2 ELSE i + 1
              e == RunEnd(code, b, WordChar \cup {"-"})
          IN  (code[i] = "<" /\ e >= b) =>
                Occurs(highlighted,
                       <<"&", "l", "t", ";">>
                         \o Span(kKeyword, Slice(code, i + 1, e)))
    /\ \A i \in PlacesOf(highlighted, <<"<">>) :
          \/ \E c \in {kKeyword, kProperty, kString} :
                IsAt(highlighted, i, SpanOpen(c))
          \/ IsAt(highlighted, i, SpanClose)

\* C20 as stated: a tag and its lower-case form select the same branch, so
\* what highlightCode returns for a tag is what it returns for the tag in
\* lower case
C20_CaseInsensitiveDispatch ==
  (hpc = "return" /\ lang # undefined) =>
    highlighted = highlightCode(code, toLowerCase(lang))

\* C20 amended: the tag is compared as given (=== on lines 159, 188, 203),
\* and the nine tags are in lower case: a tag with an upper-case letter
\* selects no branch, and highlightCode returns the escaped code with no
\* span, whatever its lower-case form selects
C20_ExactTagDispatch ==
  (hpc = "return" /\ lang # undefined /\ lang # toLowerCase(lang)) =>
    /\ highlighted = escapeHtml(code)
    /\ PlacesOf(highlighted, <<"<">>) = {}

\* C20 witness: highlightCode('Bc', 'Java') has returned Bc, where the tag
\* java wraps Bc in a class span
C20_JavaTagNotJava ==
  /\ hpc = "return"
  /\ lang = <<"J", "a", "v", "a">>
  /\ code = <<"B", "c">>
  /\ highlighted = <<"B", "c">>
  /\ highlightCode(code, sJava) = Span(kClass, <<"B", "c">>)

C22_IndicatorClasses ==
  \A k \in DOMAIN wrappers :
    /\ wrappers[k].hasScroll => wrappers[k].overflowed
    /\ wrappers[k].scrolledBottom =>
         (wrappers[k].hasScroll /\ wrappers[k].lastScroll \in 0..5)

\* C22 witness: an element carries scrolled-bottom after an event 5 from the
\* bottom, and the other element of the document, never found to overflow,
\* carries no class
C22_ScrolledToBottom ==
  /\ Len(wrappers) = 2
  /\ wrappers[1].scrolledBottom /\ wrappers[1].lastScroll = 5
  /\ ~wrappers[2].hasScroll /\ wrappers[2].lastScroll = 6

\* C23: in every state (so after each markAsViewed has returned, and right
\* after a subscription) the list each observer of guides$ received last is
\* the current list of the catalog, isViewed flags included
C23_ObserversCurrent == \A o \in DOMAIN received : received[o] = guides

\* C23 witness: a second observer has subscribed after a markAsViewed that
\* changed a record, and holds the list with that flag, as the first does
C23_LateObserverCurrent ==
  /\ op.name = "subscribe"
  /\ Len(received) = 2
  /\ \E i \in 1..Len(guides) : guides[i].isViewed
  /\ received[1] = guides /\ received[2] = guides

\* C24 as stated: when the markdown is one fenced block, the fenced-code pass
\* (guide-viewer.component.ts lines 110-113) replaces it by the block made
\* of the tag and the code as written between the fences: the header, bold
\* and italic passes before it have changed nothing inside the block
C24_FencedCodeVerbatim ==
  (pc = 7 /\ FenceAt(markdown, 1).len = Len(markdown) /\ markdown # <<>>) =>
    html = FenceAt(markdown, 1).out

\* C25 as stated: in the returned HTML the paragraph tags are balanced: as
\* many <p> as </p>, and before each </p> more <p> than </p>
C25_ParagraphsBalanced ==
  pc = NumPasses + 1 =>
    /\ Cardinality(PlacesOf(html, pOpen)) = Cardinality(PlacesOf(html, pClose))
    /\ \A i \in PlacesOf(html, pClose) :
          Cardinality({j \in PlacesOf(html, pOpen) : j < i})
            > Cardinality({j \in PlacesOf(html, pClose) : j < i})

\* C26 as stated: whatever the viewer has gone through, each code-wrapper
\* element of the document has at most one scroll listener registered by
\* setupCodeBlockScrollIndicators
C26_OneListenerPerWrapper ==
  \A k \in DOMAIN wrappers : wrappers[k].listeners <= 1

\* C27 as stated: once a loadGuide(id) that found its guide has returned, the
\* record the viewer holds in guide is the current record of the catalog
\* for that id, with isViewed true
C27_ViewerHoldsCurrentRecord ==
  (op.name = "loadGuide" /\ guide # undefinedGuide) =>
    /\ guide = getGuideById(guides, op.arg)
    /\ guide.isViewed

\* C28 as stated: in every state of the viewer renderedContent is the
\* rendering of the content of the guide held in guide, and is empty when
\* guide is undefined
C28_RenderedContentOfGuide ==
  renderedContent =
    IF guide = undefinedGuide THEN <<>> ELSE RenderingOf(guide.id)

\* C29: a step of getGuides, getGuideById, getGuidesByCategory or
\* searchGuides of the service, or of getGuidesByCategory of the dashboard,
\* leaves the list of the catalog, record by record and in its order, as it
\* was, and delivers nothing to the observers
C29_ReadsChangeNothing ==
  [][op'.name \in {"getGuides", "getGuideById", "getGuidesByCategory",
                   "searchGuides", "dashboard.getGuidesByCategory"} =>
       (guides' = guides /\ received' = received)]_vars

\* C29 witness: the dashboard, Backend selected, has returned the two
\* Backend guides sorted by order, the reverse of their order in the
\* catalog, and the catalog and its observer hold the list as it was
C29_SortedCopyReturned ==
  /\ op.name = "dashboard.getGuidesByCategory"
  /\ selectedCategory = BACKEND
  /\ Len(guides) >= 2 /\ Len(result) = 2
  /\ guides[1].id = "backend-repositories" /\ guides[2].id = "backend-entites"
  /\ result[1].id = "backend-entites" /\ result[2].id = "backend-repositories"
  /\ Len(received) >= 1 /\ received[1] = guides

=========================================================================
